---- MODULE Spec2Model ----
(***************************************************************************)
(* Vectorised gap-tooth scheme with projective integration                 *)
(* (src/Bratu/VectorizedGapToothPITimestepper.py).                         *)
(*                                                                         *)
(* Numbers are exact rationals <<numerator, denominator>> (denominator     *)
(* > 0, lowest terms), so the arithmetic of the source is modelled without *)
(* rounding.  Arrays are sequences (1-based): Python index j is j + 1      *)
(* here.  Every ndarray is an object of the store `mem`, named by its      *)
(* index, so that in-place writes and aliasing are visible.                *)
(***************************************************************************)
EXTENDS Integers, Sequences, FiniteSets, TLC

(***************************************************************************)
(* Bounds of the model.                                                    *)
(***************************************************************************)
MaxTeeth == 3
MaxMicro == 3
MaxK == 2
MaxCalls == 2

(***************************************************************************)
(* Exact rational arithmetic.                                              *)
(***************************************************************************)
Abs(a) == IF a < 0 THEN -a ELSE a

RECURSIVE GCD(_, _)
GCD(a, b) == IF b = 0 THEN a ELSE GCD(b, a % b)

Rat(n, d) ==
    LET g == GCD(Abs(n), Abs(d))
        s == IF d < 0 THEN -1 ELSE 1
    IN  <<(s * n) \div g, (s * d) \div g>>

R(n) == <<n, 1>>
Zero == R(0)
RAdd(a, b) ==
    LET g == GCD(a[2], b[2])
    IN  Rat(a[1] * (b[2] \div g) + b[1] * (a[2] \div g), (a[2] \div g) * b[2])
RNeg(a) == <<-a[1], a[2]>>
RSub(a, b) == RAdd(a, RNeg(b))
RMul(a, b) == Rat(a[1] * b[1], a[2] * b[2])
RDiv(a, b) == Rat(a[1] * b[2], a[2] * b[1])

\* np.exp, replaced by its Taylor polynomial of degree 1 (exp is not rational):
\* exp(0) = 1 exactly, and the reaction term still depends on the field.
Exp(u) == RAdd(R(1), u)

\* np.round of a true division a / b (round half to even), then int().
RoundDiv(a, b) ==
    LET q == RDiv(a, b)
        fl == q[1] \div q[2]
        twice == 2 * (q[1] - fl * q[2])
    IN  IF twice < q[2] THEN fl
        ELSE IF twice > q[2] THEN fl + 1
        ELSE IF fl % 2 = 0 THEN fl ELSE fl + 1

(***************************************************************************)
(* Arrays.                                                                 *)
(***************************************************************************)
Rows(U) == Len(U)
Cols(U) == Len(U[1])

\* A Python index (negative: from the end) of an axis of length n, 1-based.
PyIdx(i, n) == IF i < 0 THEN n + i + 1 ELSE i + 1

\* U[k, j] = v on a copy of the value (k, j 1-based).
Store(U, k, j, v) == [U EXCEPT ![k][j] = v]

\* Elementwise A + s * B.
AXPY(A, s, B) ==
    [k \in 1..Rows(A) |-> [j \in 1..Cols(A) |-> RAdd(A[k][j], RMul(s, B[k][j]))]]

\* np.roll(U, shift, axis=1): entry j comes from entry j - shift, cyclically.
roll(U, shift) ==
    [k \in 1..Rows(U) |->
        [j \in 1..Cols(U) |-> U[k][((j - 1 - shift) % Cols(U)) + 1]]]

(***************************************************************************)
(* Core building blocks.                                                   *)
(***************************************************************************)
\* Mutant: the reaction term without its coefficient lambda.
Stencil_NoLambda(U, U_left, U_right, dx, lambda) ==
    [k \in 1..Rows(U) |->
        [j \in 1..Cols(U) |->
            RAdd(RDiv(RAdd(RSub(U_left[k][j], RMul(R(2), U[k][j])), U_right[k][j]),
                      RMul(dx, dx)),
                 Exp(U[k][j]))]]

\* (U_left - 2 U + U_right) / dx**2 + lambda * exp(U)
Stencil(U, U_left, U_right, dx, lambda) ==
    [k \in 1..Rows(U) |->
        [j \in 1..Cols(U) |->
            RAdd(RDiv(RAdd(RSub(U_left[k][j], RMul(R(2), U[k][j])), U_right[k][j]),
                      RMul(dx, dx)),
                 RMul(lambda, Exp(U[k][j])))]]

rhs_vectorised(U, dx, lambda) ==
    Stencil(U, roll(U, -1), roll(U, 1), dx, lambda)

\* U[1:, 1] and U[:-1, -2] index a second column: IndexError on a one-column
\* array with more than one row.
BCRaises(U) == Rows(U) > 1 /\ Cols(U) < 2

\* Mutant: the left Neumann condition without the factor dx.
LeftEdges_NoDx(U, dx, left_slope) ==
    [k \in 1..Rows(U) |->
        [j \in 1..Cols(U) |->
            IF k >= 2 /\ j = PyIdx(0, Cols(U))
            THEN RSub(U[k][PyIdx(1, Cols(U))], left_slope[k])
            ELSE U[k][j]]]

\* U_new[1:, 0] = U_new[1:, 1] - left_slope[1:] * dx (right-hand side first).
LeftEdges(U, dx, left_slope) ==
    [k \in 1..Rows(U) |->
        [j \in 1..Cols(U) |->
            IF k >= 2 /\ j = PyIdx(0, Cols(U))
            THEN RSub(U[k][PyIdx(1, Cols(U))], RMul(left_slope[k], dx))
            ELSE U[k][j]]]

\* Mutant: the right Neumann condition on U_new[1:-1, -1], patch 0 left out.
RightEdges_SkipFirst(U, dx, right_slope) ==
    [k \in 1..Rows(U) |->
        [j \in 1..Cols(U) |->
            IF k >= 2 /\ k <= Rows(U) - 1 /\ j = PyIdx(-1, Cols(U))
            THEN RAdd(U[k][PyIdx(-2, Cols(U))], RMul(right_slope[k], dx))
            ELSE U[k][j]]]

\* U_new[:-1, -1] = U_new[:-1, -2] + right_slope[:-1] * dx
RightEdges(U, dx, right_slope) ==
    [k \in 1..Rows(U) |->
        [j \in 1..Cols(U) |->
            IF k <= Rows(U) - 1 /\ j = PyIdx(-1, Cols(U))
            THEN RAdd(U[k][PyIdx(-2, Cols(U))], RMul(right_slope[k], dx))
            ELSE U[k][j]]]

\* Mutant: the boundary conditions without U_new[-1, -1] = 0.0.
BoundaryConditions_NoRightEnd(U, dx, left_slope, right_slope) ==
    LET n_teeth == Rows(U)
        U1 == Store(U, PyIdx(0, Rows(U)), PyIdx(0, Cols(U)), Zero)
    IN  IF n_teeth > 1
        THEN RightEdges(LeftEdges(U1, dx, left_slope), dx, right_slope)
        ELSE U1

\* The in-place boundary assignments, in the order of the source.
BoundaryConditions(U, dx, left_slope, right_slope) ==
    LET n_teeth == Rows(U)
        U1 == Store(U, PyIdx(0, Rows(U)), PyIdx(0, Cols(U)), Zero)
        U2 == Store(U1, PyIdx(-1, Rows(U)), PyIdx(-1, Cols(U)), Zero)
    IN  IF n_teeth > 1
        THEN RightEdges(LeftEdges(U2, dx, left_slope), dx, right_slope)
        ELSE U2

euler_step(U, dx, dt, left_slope, right_slope, lambda) ==
    BoundaryConditions(AXPY(U, dt, rhs_vectorised(U, dx, lambda)),
                       dx, left_slope, right_slope)

\* Mutant: the projection over Dt instead of Dt - K*dt.
Extrapolate_FullStep(U, U_prev, dt, Dt, K) ==
    [k \in 1..Rows(U) |->
        [j \in 1..Cols(U) |->
            RAdd(U[k][j], RMul(Dt, RDiv(RSub(U[k][j], U_prev[k][j]), dt)))]]

\* du_dt = (U - U_prev) / dt;  U + (Dt - K*dt) * du_dt
Extrapolate(U, U_prev, dt, Dt, K) ==
    [k \in 1..Rows(U) |->
        [j \in 1..Cols(U) |->
            RAdd(U[k][j],
                 RMul(RSub(Dt, RMul(R(K), dt)),
                      RDiv(RSub(U[k][j], U_prev[k][j]), dt)))]]

\* The K Euler steps of one cycle, as the loop and the last step leave them.
RECURSIVE EulerIter(_, _, _, _, _, _, _)
EulerIter(U, k, dx, dt, left_slope, right_slope, lambda) ==
    IF k = 0 THEN U
    ELSE euler_step(EulerIter(U, k - 1, dx, dt, left_slope, right_slope, lambda),
                    dx, dt, left_slope, right_slope, lambda)

(***************************************************************************)
(* Structural conversions.                                                 *)
(***************************************************************************)
\* u[lo:hi] of a one-dimensional array (0-based, end clamped).
Slice(u, lo, hi) ==
    LET h == IF hi > Len(u) THEN Len(u) ELSE hi
    IN  IF lo >= h THEN << >> ELSE SubSeq(u, lo + 1, h)

\* Mutant: every slice one element short.
toPatch_Short(x_plot_array, u) ==
    LET length == Len(x_plot_array[1])
    IN  [i \in 1..Len(x_plot_array) |-> Slice(u, (i - 1) * length, i * length - 1)]

toPatch(x_plot_array, u) ==
    LET length == Len(x_plot_array[1])
    IN  [i \in 1..Len(x_plot_array) |-> Slice(u, (i - 1) * length, i * length)]

toNumpyArray(u_patch) ==
    LET length == Len(u_patch[1])
    IN  [q \in 1..(Len(u_patch) * length) |->
            u_patch[((q - 1) \div length) + 1][((q - 1) % length) + 1]]

\* The coordinates of the patches: tooth k starts (gap + points) cells after
\* tooth k - 1, with gap = (points - 1) - 1.
XGrid(n_teeth, n_points_per_tooth, dx) ==
    LET n_points_per_gap == (n_points_per_tooth - 1) - 1
    IN  [k \in 1..n_teeth |->
            [j \in 1..n_points_per_tooth |->
                RMul(R((k - 1) * (n_points_per_gap + n_points_per_tooth) + (j - 1)), dx)]]

(***************************************************************************)
(* Inputs.                                                                 *)
(***************************************************************************)
\* Flat fields: a constant base plus at most one unit perturbation (the zero
\* initial condition and the columns of np.eye used for the Jacobian).
FlatFields(N, bases) ==
    {[q \in 1..N |-> IF q = i THEN R(b + 1) ELSE R(b)] : i \in 0..N, b \in bases}

KValues == 1..MaxK

\* The driver's micro numerics <<dx, dt, lambda>>, with dt / dx**2 = 1.
Numerics ==
    { <<R(1), R(1), R(1)>>, <<R(2), R(4), R(0)>> }

\* The driver's time scales <<Dt, T_patch, T>>, in units of dt.
Schedules ==
    { <<R(1), R(1), R(1)>>,           \* one patch step of one cycle, Dt = dt
      <<R(4), R(8), R(16)>>,          \* two patch steps of two cycles, Dt = 4 dt
      <<R(2), R(3), Rat(3, 2)>>,      \* T / T_patch = 0.5 rounds to 0 patch steps
      <<R(2), R(1), Rat(5, 2)>> }     \* T_patch / Dt = 0.5 rounds to 0 cycles

\* The outward slopes the interpolant may return for n_teeth patches.
RBFDerivatives(n_teeth) ==
    { << [k \in 1..n_teeth |-> Zero], [k \in 1..n_teeth |-> Zero] >>,
      << [k \in 1..n_teeth |-> R(k)], [k \in 1..n_teeth |-> R(1)] >> }

(***************************************************************************)
(* State.                                                                  *)
(***************************************************************************)
VARIABLES
    mem,            \* the ndarray objects, by identity
    pc,             \* where the control is
    entry,          \* the function the caller invoked
    args,           \* the scalar arguments: dx, dt, Dt, K, T_patch, T, lambda
    count,          \* psiPatch.count
    x_plot_array,   \* the coordinate arrays (object)
    u0_numpy,       \* the caller's flat vector (object)
    U,              \* the PatchSet of gaptooth_PI_vectorised, or the caller's
    left_slope,     \* objects
    right_slope,
    Uc,             \* U of projective_microcycle
    U_prev,
    m,              \* the micro-step loop index
    p,              \* patch steps started
    c,              \* cycles done in the current patch step
    n_patch_steps,
    n_PI_steps,
    ret,            \* the returned object
    calls,          \* history: psiPatch calls made
    trace           \* history: the calls of the current invocation

vars == <<mem, pc, entry, args, count, x_plot_array, u0_numpy, U, left_slope,
          right_slope, Uc, U_prev, m, p, c, n_patch_steps, n_PI_steps, ret,
          calls, trace>>

None == 0

\* Mutant: the expression evaluated in place (U += ...).
ResultObject_InPlace(store, operand) == operand

\* The object that receives the value of an array expression: a new one.
ResultObject(store, operand) == Len(store) + 1

\* The store with object id holding val (a new object is appended).
WriteObj(store, id, val) ==
    IF id = Len(store) + 1 THEN Append(store, val) ELSE [store EXCEPT ![id] = val]

\* Mutant: the counter left as it is.
Increment_Skip(n) == n

\* count += 1
Increment(n) == n + 1

(***************************************************************************)
(* projective_microcycle, step by step (shared by both callers).           *)
(***************************************************************************)
\* One call, as the history records it: the objects passed and the one returned.
Event(name, obj, prev, out) ==
    [ev |-> name, U |-> obj, left |-> left_slope, right |-> right_slope,
     prev |-> prev, out |-> out]

\* Mutant: range(K).
LoopBound_K(K) == K

\* range(K-1)
LoopBound(K) == K - 1

\* for m in range(K-1): U = euler_step(U, ...)
MicroLoop ==
    /\ pc = "micro_loop"
    /\ m < LoopBound(args.K)
    /\ IF BCRaises(mem[Uc])
       THEN /\ pc' = "raised"
            /\ trace' = Append(trace, Event("euler_step", Uc, None, None))
            /\ UNCHANGED <<mem, Uc, m>>
       ELSE LET new == ResultObject(mem, Uc)
            IN  /\ trace' = Append(trace, Event("euler_step", Uc, None, new))
                /\ mem' = WriteObj(mem, new,
                            euler_step(mem[Uc], args.dx, args.dt,
                                       mem[left_slope], mem[right_slope], args.lambda))
                /\ Uc' = new
                /\ m' = m + 1
                /\ pc' = "micro_loop"
    /\ UNCHANGED <<entry, args, count, x_plot_array, u0_numpy, U, left_slope,
                   right_slope, U_prev, p, c, n_patch_steps, n_PI_steps, ret, calls>>

\* U_prev = U.copy(); U = euler_step(U, ...)
MicroLast ==
    /\ pc = "micro_loop"
    /\ m >= LoopBound(args.K)
    /\ LET copied == Append(mem, mem[Uc])
           new == ResultObject(copied, Uc)
       IN  IF BCRaises(mem[Uc])
           THEN /\ pc' = "raised"
                /\ trace' = Append(trace, Event("euler_step", Uc, None, None))
                /\ mem' = copied
                /\ U_prev' = Len(copied)
                /\ UNCHANGED Uc
           ELSE /\ trace' = Append(trace, Event("euler_step", Uc, None, new))
                /\ mem' = WriteObj(copied, new,
                            euler_step(mem[Uc], args.dx, args.dt,
                                       mem[left_slope], mem[right_slope], args.lambda))
                /\ U_prev' = Len(copied)
                /\ Uc' = new
                /\ pc' = "project"
    /\ UNCHANGED <<entry, args, count, x_plot_array, u0_numpy, U, left_slope,
                   right_slope, m, p, c, n_patch_steps, n_PI_steps, ret, calls>>

\* du_dt, the projection, the boundary conditions again, and the return: to the
\* driver's loop (U = projective_microcycle(...)) or to the direct caller.
Project ==
    /\ pc = "project"
    /\ LET new == ResultObject(mem, Uc)
           val == BoundaryConditions(
                      Extrapolate(mem[Uc], mem[U_prev], args.dt, args.Dt, args.K),
                      args.dx, mem[left_slope], mem[right_slope])
       IN  /\ mem' = WriteObj(mem, new, val)
           /\ trace' = Append(trace, Event("return", Uc, U_prev, new))
           /\ IF entry = "psiPatch"
              THEN /\ U' = new
                   /\ c' = c + 1
                   /\ pc' = "loop"
                   /\ ret' = ret
              ELSE /\ ret' = new
                   /\ pc' = "returned"
                   /\ UNCHANGED <<U, c>>
    /\ Uc' = None
    /\ U_prev' = None
    /\ UNCHANGED <<entry, args, count, x_plot_array, u0_numpy, left_slope,
                   right_slope, m, p, n_patch_steps, n_PI_steps, calls>>

(***************************************************************************)
(* psiPatch and gaptooth_PI_vectorised.                                    *)
(***************************************************************************)
NTeeth == Len(mem[x_plot_array])
NMicro == Len(mem[x_plot_array][1])

\* The wrapper counts, then the body starts: u0_patch = toPatch(...) are views
\* of u0_numpy.  The caller's objects are the coordinates and the new vector.
PsiCall ==
    /\ pc \in {"idle", "raised"}
    /\ calls < MaxCalls
    /\ \E u \in FlatFields(NTeeth * NMicro, {0}) :
          mem' = <<mem[x_plot_array], u>>
    /\ u0_numpy' = 2
    /\ count' = Increment(count)
    /\ calls' = calls + 1
    /\ pc' = "gaptooth"
    /\ trace' = << >>
    /\ ret' = None
    /\ U' = None /\ left_slope' = None /\ right_slope' = None
    /\ Uc' = None /\ U_prev' = None
    /\ m' = 0 /\ p' = 0 /\ c' = 0
    /\ n_patch_steps' = 0 /\ n_PI_steps' = 0
    /\ UNCHANGED <<entry, args, x_plot_array>>

\* U = np.stack(u0_patch); the two loop bounds.
Stack ==
    /\ pc = "gaptooth"
    /\ mem' = Append(mem, toPatch(mem[x_plot_array], mem[u0_numpy]))
    /\ U' = Len(mem) + 1
    /\ n_patch_steps' = RoundDiv(args.T, args.T_patch)
    /\ n_PI_steps' = RoundDiv(args.T_patch, args.Dt)
    /\ p' = 0
    /\ c' = 0
    /\ pc' = "loop"
    /\ UNCHANGED <<entry, args, count, x_plot_array, u0_numpy, left_slope,
                   right_slope, Uc, U_prev, m, ret, calls, trace>>

\* Mutant: the slopes may be recomputed between two cycles of a patch step.
InnerDone_Always == TRUE

\* The inner loop of the current patch step is over (or none has started).
InnerDone == p = 0 \/ c >= n_PI_steps

\* left_slope, right_slope = spline_slopes(U, x_array)
SplineSlopes ==
    /\ pc = "loop"
    /\ InnerDone
    /\ p < n_patch_steps
    /\ \E s \in RBFDerivatives(NTeeth) :
          /\ mem' = mem \o <<s[1], s[2]>>
          /\ trace' = Append(trace, [ev |-> "spline_slopes", U |-> U,
                                     left |-> Len(mem) + 1, right |-> Len(mem) + 2,
                                     prev |-> None, out |-> None])
    /\ left_slope' = Len(mem) + 1
    /\ right_slope' = Len(mem) + 2
    /\ p' = p + 1
    /\ c' = 0
    /\ UNCHANGED <<pc, entry, args, count, x_plot_array, u0_numpy, U, Uc, U_prev,
                   m, n_patch_steps, n_PI_steps, ret, calls>>

\* U = projective_microcycle(U, dx, dt, Dt, K, left_slope, right_slope, params)
CycleEntry ==
    /\ pc = "loop"
    /\ p >= 1
    /\ c < n_PI_steps
    /\ Uc' = U
    /\ m' = 0
    /\ pc' = "micro_loop"
    /\ trace' = Append(trace, Event("projective_microcycle", U, None, None))
    /\ UNCHANGED <<mem, entry, args, count, x_plot_array, u0_numpy, U, left_slope,
                   right_slope, U_prev, p, c, n_patch_steps, n_PI_steps, ret, calls>>

\* return [U[k].copy() ...]; then u0_numpy - toNumpyArray(u_new_patch)
Return ==
    /\ pc = "loop"
    /\ InnerDone
    /\ p >= n_patch_steps
    /\ LET u_new_patch == mem[U]
           flat == toNumpyArray(u_new_patch)
           residual == [q \in 1..Len(mem[u0_numpy]) |-> RSub(mem[u0_numpy][q], flat[q])]
       IN  mem' = mem \o <<u_new_patch, flat, residual>>
    /\ ret' = Len(mem) + 3
    /\ pc' = "idle"
    /\ UNCHANGED <<entry, args, count, x_plot_array, u0_numpy, U, left_slope,
                   right_slope, Uc, U_prev, m, p, c, n_patch_steps, n_PI_steps,
                   calls, trace>>

Init ==
    /\ \E n_teeth \in 1..MaxTeeth, n_micro \in 1..MaxMicro, num \in Numerics,
          K \in KValues, s \in Schedules :
          /\ args = [dx |-> num[1], dt |-> num[2], Dt |-> RMul(s[1], num[2]), K |-> K,
                     T_patch |-> RMul(s[2], num[2]), T |-> RMul(s[3], num[2]),
                     lambda |-> num[3]]
          /\ mem = <<XGrid(n_teeth, n_micro, num[1])>>
    /\ x_plot_array = 1
    /\ u0_numpy = None
    /\ pc = "idle"
    /\ entry = "psiPatch"
    /\ count = 0
    /\ calls = 0
    /\ U = None /\ left_slope = None /\ right_slope = None
    /\ Uc = None /\ U_prev = None
    /\ m = 0 /\ p = 0 /\ c = 0
    /\ n_patch_steps = 0 /\ n_PI_steps = 0
    /\ ret = None
    /\ trace = << >>

Next ==
    \/ PsiCall
    \/ Stack
    \/ SplineSlopes
    \/ CycleEntry
    \/ MicroLoop
    \/ MicroLast
    \/ Project
    \/ Return

Spec == Init /\ [][Next]_vars

(***************************************************************************)
(* Direct calls of the building blocks, on arbitrary arguments.            *)
(***************************************************************************)
DxValues == {R(1), R(2)}
DtValues == {R(1), R(2)}
LambdaValues == {R(0), R(1)}
\* Dt / dt
DtRatios == {R(1), R(4)}

\* The slope arrays a caller may pass for n_teeth patches.
SlopeArrays(n_teeth) ==
    RBFDerivatives(n_teeth) \cup
    { << [k \in 1..n_teeth |-> R(1)], [k \in 1..n_teeth |-> R(1)] >>,
      << [k \in 1..n_teeth |-> Zero], [k \in 1..n_teeth |-> R(k)] >> }

\* euler_step(U, dx, dt, left_slope, right_slope, params)
CallEulerStep ==
    /\ pc = "caller"
    /\ entry' = "euler_step"
    /\ IF BCRaises(mem[U])
       THEN /\ pc' = "raised"
            /\ trace' = <<Event("euler_step", U, None, None)>>
            /\ UNCHANGED <<mem, ret>>
       ELSE LET new == ResultObject(mem, U)
            IN  /\ mem' = WriteObj(mem, new,
                            euler_step(mem[U], args.dx, args.dt,
                                       mem[left_slope], mem[right_slope], args.lambda))
                /\ trace' = <<Event("euler_step", U, None, new)>>
                /\ ret' = new
                /\ pc' = "returned"
    /\ UNCHANGED <<args, count, x_plot_array, u0_numpy, U, left_slope, right_slope,
                   Uc, U_prev, m, p, c, n_patch_steps, n_PI_steps, calls>>

\* projective_microcycle(U, dx, dt, Dt, K, left_slope, right_slope, params)
CallMicrocycle ==
    /\ pc = "caller"
    /\ entry' = "projective_microcycle"
    /\ \E K \in KValues, ratio \in DtRatios :
          args' = [args EXCEPT !.K = K, !.Dt = RMul(ratio, args.dt)]
    /\ Uc' = U
    /\ m' = 0
    /\ pc' = "micro_loop"
    /\ trace' = <<Event("projective_microcycle", U, None, None)>>
    /\ UNCHANGED <<mem, count, x_plot_array, u0_numpy, U, left_slope, right_slope,
                   U_prev, p, c, n_patch_steps, n_PI_steps, ret, calls>>

\* toPatch(x_plot_array, toNumpyArray(P)) on the patches P of U
CallRoundTrip ==
    /\ pc = "caller"
    /\ entry' = "roundtrip"
    /\ mem' = Append(mem, toPatch(XGrid(Rows(mem[U]), Cols(mem[U]), args.dx),
                                  toNumpyArray(mem[U])))
    /\ ret' = Len(mem) + 1
    /\ pc' = "returned"
    /\ UNCHANGED <<args, count, x_plot_array, u0_numpy, U, left_slope, right_slope,
                   Uc, U_prev, m, p, c, n_patch_steps, n_PI_steps, calls, trace>>

InitUnit ==
    /\ \E n_teeth \in 1..MaxTeeth, n_micro \in 1..MaxMicro, dx \in DxValues,
          dt \in DtValues, lambda \in LambdaValues :
          /\ args = [dx |-> dx, dt |-> dt, Dt |-> dt, K |-> 1,
                     T_patch |-> Zero, T |-> Zero, lambda |-> lambda]
          /\ \E u \in FlatFields(n_teeth * n_micro, {0, 1}),
                s \in SlopeArrays(n_teeth) :
                mem = <<toPatch(XGrid(n_teeth, n_micro, dx), u), s[1], s[2]>>
    /\ U = 1
    /\ left_slope = 2
    /\ right_slope = 3
    /\ x_plot_array = None
    /\ u0_numpy = None
    /\ pc = "caller"
    /\ entry = "none"
    /\ count = 0
    /\ calls = 0
    /\ Uc = None /\ U_prev = None
    /\ m = 0 /\ p = 0 /\ c = 0
    /\ n_patch_steps = 0 /\ n_PI_steps = 0
    /\ ret = None
    /\ trace = << >>

NextUnit ==
    \/ CallEulerStep
    \/ CallMicrocycle
    \/ CallRoundTrip
    \/ MicroLoop
    \/ MicroLast
    \/ Project

SpecUnit == InitUnit /\ [][NextUnit]_vars

(***************************************************************************)
(* Properties.                                                             *)
(***************************************************************************)
\* The calls of euler_step and of projective_microcycle that returned an array.
Produced ==
    {i \in 1..Len(trace) : trace[i].ev \in {"euler_step", "return"} /\ trace[i].out # None}

NonZero(V) == \E k \in 1..Rows(V) : \E j \in 1..Cols(V) : V[k][j] # Zero

\* The two Neumann equations of patch k of a returned array V.
LeftEdgeHolds(V, k, L, dx) ==
    V[k][PyIdx(0, Cols(V))] = RSub(V[k][PyIdx(1, Cols(V))], RMul(L[k], dx))
RightEdgeHolds(V, k, Rs, dx) ==
    V[k][PyIdx(-1, Cols(V))] = RAdd(V[k][PyIdx(-2, Cols(V))], RMul(Rs[k], dx))

\* C1: every array returned by euler_step or by projective_microcycle has 0 at
\* the left end of patch 0 and 0 at the right end of the last patch.
C1_OuterDirichlet ==
    \A i \in Produced :
        LET V == mem[trace[i].out]
        IN  V[1][1] = Zero /\ V[Rows(V)][Cols(V)] = Zero

C1_Witness ==
    /\ pc = "returned"
    /\ entry = "projective_microcycle"
    /\ args.K = 2
    /\ Rows(mem[ret]) >= 2
    /\ mem[U][1][1] # Zero
    /\ NonZero(mem[ret])

UnequalSlopes(L, Rs) == {k \in 2..(Len(L) - 1) : L[k] # Rs[k]}

CycleAsOneStep ==
    /\ pc = "returned"
    /\ entry = "projective_microcycle"
    /\ args.K = 1
    /\ args.Dt = args.dt

OneStep ==
    euler_step(mem[U], args.dx, args.dt, mem[left_slope], mem[right_slope], args.lambda)

Sched ==
    SelectSeq(trace, LAMBDA e : e.ev \in {"spline_slopes", "projective_microcycle"})

\* The PatchSet the driver holds before call t: the last array a cycle
\* returned, or the stacked initial state.
LastOut(t) ==
    LET rs == {i \in 1..(t - 1) : trace[i].ev = "return"}
    IN  IF rs = {} THEN u0_numpy + 1
        ELSE trace[CHOOSE i \in rs : \A j \in rs : j <= i].out

\* C4: within one invocation of gaptooth_PI_vectorised every block of
\* n_PI_steps + 1 calls is one spline_slopes call on the current state followed
\* by n_PI_steps projective_microcycle calls with the slope pair it returned;
\* there are at most n_patch_steps blocks, and exactly that many on return.
C4_Schedule ==
    /\ \A i \in 1..Len(Sched) :
          /\ (Sched[i].ev = "spline_slopes") <=> ((i - 1) % (n_PI_steps + 1) = 0)
          /\ LET j == i - ((i - 1) % (n_PI_steps + 1))
             IN  Sched[i].left = Sched[j].left /\ Sched[i].right = Sched[j].right
    /\ Len(Sched) <= n_patch_steps * (n_PI_steps + 1)
    /\ (pc = "idle" /\ ret # None) => Len(Sched) = n_patch_steps * (n_PI_steps + 1)
    /\ \A t \in 1..Len(trace) :
          trace[t].ev \in {"spline_slopes", "projective_microcycle"}
              => trace[t].U = LastOut(t)

C4_Witness ==
    /\ pc = "idle"
    /\ ret # None
    /\ n_patch_steps = 2
    /\ n_PI_steps = 2
    /\ Len(Sched) = 6
    /\ mem[Sched[1].left] # mem[Sched[4].left]
    /\ mem[Sched[1].U] # mem[Sched[4].U]

\* C5: a cycle that returns has made exactly K euler_step calls, chained and all
\* with the slopes of the cycle; U_prev is the state after K-1 steps, U_last the
\* state after K steps, and the returned values away from the patch edges are
\* U_last + (Dt - K*dt) * (U_last - U_prev) / dt.  No cycle makes more than K.
\* (Stated of the latest call: the history only grows, so every call is the
\* latest one in the state that follows it.)
C5_MicroSteps ==
    /\ LET t == Len(trace) IN
          (t > 0 /\ trace[t].ev = "return") =>
            LET K == args.K
                cyc == trace[t - K - 1]
                U_last == mem[trace[t].U]
                U_before == mem[trace[t].prev]
                V == mem[trace[t].out]
                before == EulerIter(mem[cyc.U], K - 1, args.dx, args.dt,
                                    mem[cyc.left], mem[cyc.right], args.lambda)
            IN  /\ t > K
                /\ cyc.ev = "projective_microcycle"
                /\ \A i \in 1..K :
                      LET e == trace[t - K - 1 + i]
                      IN  /\ e.ev = "euler_step"
                          /\ e.left = cyc.left /\ e.right = cyc.right
                          /\ e.U = IF i = 1 THEN cyc.U ELSE trace[t - K - 2 + i].out
                /\ trace[t].U = trace[t - 1].out
                /\ U_before = before
                /\ U_last = euler_step(before, args.dx, args.dt,
                                       mem[cyc.left], mem[cyc.right], args.lambda)
                /\ \A k \in 1..Rows(V) : \A j \in 2..(Cols(V) - 1) :
                      V[k][j] = RAdd(U_last[k][j],
                                     RDiv(RMul(RSub(args.Dt, RMul(R(K), args.dt)),
                                               RSub(U_last[k][j], U_before[k][j])),
                                          args.dt))
    /\ LET t == Len(trace) - args.K - 1 IN
          (t >= 1 /\ trace[t].ev = "projective_microcycle")
              => trace[t + args.K + 1].ev = "return"

C5_Witness ==
    /\ pc = "loop"
    /\ Len(trace) > 0
    /\ trace[Len(trace)].ev = "return"
    /\ args.K = 2
    /\ args.Dt # RMul(R(2), args.dt)
    /\ Cols(mem[U]) >= 3
    /\ \E k \in 1..Rows(mem[U]) :
          mem[trace[Len(trace)].U][k][2] # mem[trace[Len(trace)].prev][k][2]

\* C6: psiPatch.count is the number of psiPatch calls made so far, whether or
\* not their body returned.
C6_Counter == count = calls

C6_Witness ==
    /\ pc = "raised"
    /\ count = 2

\* C10: no step changes an array that already exists: results go to new objects.
\* Only the caller's choice of the next input vector replaces an object, and the
\* coordinate arrays are never replaced.
C10_Frame ==
    [][ /\ mem'[x_plot_array] = mem[x_plot_array]
        /\ pc' # "gaptooth" =>
              /\ Len(mem') >= Len(mem)
              /\ \A i \in 1..Len(mem) : mem'[i] = mem[i] ]_vars

C10_Witness ==
    /\ pc = "idle"
    /\ ret # None
    /\ n_patch_steps = 2
    /\ n_PI_steps = 2
    /\ args.K = 2
    /\ \E q \in 1..Len(mem[u0_numpy]) : mem[u0_numpy][q] # Zero
    /\ \E q \in 1..Len(mem[ret]) : mem[ret][q] # Zero

\* C7: splitting the concatenation of the patches of P again, with a coordinate
\* list of the same shape, gives P back.
C7_RoundTrip ==
    (pc = "returned" /\ entry = "roundtrip") => mem[ret] = mem[U]

C7_Witness ==
    /\ pc = "returned"
    /\ entry = "roundtrip"
    /\ Rows(mem[U]) >= 2
    /\ Cols(mem[U]) >= 2
    /\ mem[U][1] # mem[U][2]

AllZero(V) == ~NonZero(V)

\* C8: euler_step on a single patch returns; its result is the raw update with
\* only the two end values set to 0; and with lambda = 0 it maps the zero field
\* to the zero field, whatever dx, dt and the slopes are.
C8_SinglePatch ==
    (entry = "euler_step" /\ Rows(mem[U]) = 1) =>
        /\ pc = "returned"
        /\ LET raw == AXPY(mem[U], args.dt, rhs_vectorised(mem[U], args.dx, args.lambda))
           IN  mem[ret] = Store(Store(raw, 1, 1, Zero), 1, Cols(raw), Zero)
        /\ (args.lambda = Zero /\ AllZero(mem[U])) => AllZero(mem[ret])

C8_Witness ==
    /\ entry = "euler_step"
    /\ pc = "returned"
    /\ Rows(mem[U]) = 1
    /\ Cols(mem[U]) = 3
    /\ args.lambda = Zero
    /\ AllZero(mem[U])
    /\ args.dx = R(2)
    /\ args.dt = R(2)
    /\ mem[left_slope][1] # Zero

\* np.roll with every value read across the array boundary replaced by w.
rollWith(V, shift, w) ==
    [k \in 1..Rows(V) |->
        [j \in 1..Cols(V) |->
            IF j - shift >= 1 /\ j - shift <= Cols(V) THEN V[k][j - shift] ELSE w]]

EulerVariant(V, w) ==
    BoundaryConditions(
        AXPY(V, args.dt,
             Stencil(V, rollWith(V, -1, w), rollWith(V, 1, w), args.dx, args.lambda)),
        args.dx, mem[left_slope], mem[right_slope])

WrapValues == {R(7), Rat(-1, 2)}

\* C9 as claimed: for every shape, euler_step returns what it would return with
\* any other value read across the array boundary.
C9_WrapUnobserved_AnySize ==
    (entry = "euler_step" /\ pc = "returned") =>
        \A w \in WrapValues : mem[ret] = EulerVariant(mem[U], w)

\* C9 amended: the result of euler_step is independent of the values the
\* stencil reads across the array boundary when patches have at least 3 micro
\* points or there is no internal patch (n_teeth <= 2); with 2 micro points an
\* internal patch keeps a value computed from the wrapped read.
C9_WrapUnobserved ==
    (entry = "euler_step" /\ pc = "returned") =>
        \A w \in WrapValues :
            (mem[ret] = EulerVariant(mem[U], w))
                <=> (Cols(mem[U]) # 2 \/ Rows(mem[U]) <= 2)

C9_Witness ==
    /\ entry = "euler_step"
    /\ pc = "returned"
    /\ Rows(mem[U]) >= 3
    /\ Cols(mem[U]) >= 3
    /\ mem[U][2][1] # mem[U][2][Cols(mem[U])]
    /\ mem[U][2][1] # Zero

====
